---- MODULE Spec2Model ----
(***************************************************************************)
(* The transcription job runner of src/components/AudioProcessor.vue:      *)
(* the component's refs, the UI event handlers that write them, and        *)
(* processAudio cut at its await points (upload, submit, the poll loop's   *)
(* timer and status query, the caption query).  The remote service is the  *)
(* environment: every reply (success or not, and its payload) is chosen    *)
(* freely from small sets.                                                 *)
(*                                                                         *)
(* Texts shown to the user are sequences of parts, so that a template      *)
(* literal `a ${x} b` is <<"a ", x, " b">> and the empty string is <<>>.   *)
(* A file name is a sequence of pieces, each either "." or a piece         *)
(* without a dot.  apiKeyVisible and dragActive are presentation only and  *)
(* are read by no handler; they are left out.  A reply's json() or text()  *)
(* is taken together with the reply: between the two the code reads and    *)
(* writes nothing, and bodies are taken to be well-formed.  When           *)
(* processAudio returns, its locals go back to their initial values.       *)
(***************************************************************************)
EXTENDS Integers, Sequences, FiniteSets, TLC

VARIABLES
    \* ---- the component's refs (lines 5-13) and localStorage
    apiKey, audioFile, outputType, characterLength,
    isLoading, errorMessage, successMessage,
    processingProgress, processingStage,
    storedKey,
    \* ---- one invocation of processAudio: its position and its locals
    pc, audioUrl, transcriptId, status, pollCount, result,
    \* ---- the request awaiting its reply, and what has been seen of the
    \* ---- current (or last) run: calls made, last reply, files delivered
    calls, inFlight, lastReply, delivered, started

ui   == <<apiKey, audioFile, outputType, characterLength>>
view == <<isLoading, errorMessage, successMessage, processingProgress, processingStage>>
run  == <<pc, audioUrl, transcriptId, status, pollCount, result>>
obs  == <<calls, inFlight, lastReply, delivered, started>>
vars == <<ui, view, storedKey, run, obs>>

-----------------------------------------------------------------------------
(* Bounds of the model *)

\* status queries one run may issue before the model stops following it
MaxPolls == 2

\* the same in the long-polling specification: enough for the progress
\* estimate to reach its cap and stay there
MaxDeepPolls == 17

\* pieces in a file name of the file-name specification
MaxNameLen == 3

\* status queries the service may answer with queued or processing before
\* it reports another status, in the specification with fairness
MaxBusyPolls == 3

-----------------------------------------------------------------------------
(* Program constants *)

ProgressUpload   == 10
ProgressSubmit   == 30
ProgressPolling  == 50
ProgressCap      == 80
ProgressStep     == 2
ProgressFormat   == 90
ProgressComplete == 100
DefaultCharacterLength == 32

-----------------------------------------------------------------------------
(* Values the environment supplies *)

NoValue == "undefined"

Keys       == {"key-1", "key-2"}
UploadUrls == {"url-1", "url-2"}
JobIds     == {"job-1", "job-2"}
Texts      == {"Hello world", "Bye"}
Reasons    == {"audio is corrupt"}
SrtBodies  == {"1\n00:00:00,000 --> 00:00:01,000\nHello\n", "1\n...\nBye\n"}
CharacterLengths == {DefaultCharacterLength, 40}
OutputTypes == {"transcript", "subtitles"}

NoFile == [name |-> <<>>, type |-> <<>>, size |-> -1]
FileA  == [name |-> <<"meeting", ".", "recording", ".", "mp3">>,
           type |-> <<"audio/", "mpeg">>, size |-> 3]
FileB  == [name |-> <<"podcast">>, type |-> <<"audio/", "wav">>, size |-> 0]
FileT  == [name |-> <<"notes", ".", "txt">>, type |-> <<"text/", "plain">>, size |-> 1]
AudioFiles == {FileA, FileB}
DropFiles  == AudioFiles \cup {FileT}

\* How a fetch can end: a response with ok, a response without ok, or a
\* rejected promise (no response at all).
Outcomes == {"ok", "notok", "rejected"}

StatusValues == {"queued", "processing", "completed", "error", "paused"}

\* The JSON a status query can carry: text only when completed, error only
\* when the job failed.
Payloads ==
    { [status |-> s, text |-> t, error |-> e] :
        s \in StatusValues, t \in Texts \cup {NoValue}, e \in Reasons \cup {NoValue} }
NoPayload == [status |-> NoValue, text |-> NoValue, error |-> NoValue]
StatusPayloads ==
    { p \in Payloads :
        /\ (p.text # NoValue) <=> (p.status = "completed")
        /\ (p.error # NoValue) <=> (p.status = "error") }

NoCall  == [kind |-> "none", auth |-> "", url |-> NoValue, id |-> NoValue,
            file |-> NoFile, chars |-> 0]
NoReply == [kind |-> "none", outcome |-> "none", url |-> NoValue, id |-> NoValue,
            payload |-> NoPayload, body |-> NoValue]
NoCalls == [k \in {"upload", "submit", "wait", "status", "caption"} |-> 0]
NotStarted == [key |-> "", file |-> NoFile, outputType |-> NoValue, characterLength |-> 0]

-----------------------------------------------------------------------------
(* Pure parts of the code *)

Min(a, b) == IF a < b THEN a ELSE b

\* file.type.startsWith("audio/")
StartsWithAudio(type) == Len(type) >= 1 /\ type[1] = "audio/"

\* (a slip: the loop also stops once the estimate has reached its cap)
LoopConditionCapped(st) ==
    (st = "processing" \/ st = "queued") /\ processingProgress < ProgressCap

\* (a slip: the loop goes on until a terminal status, whatever else it reads)
LoopConditionUntilTerminal(st) == st # "completed" /\ st # "error"

\* (a slip: the loop goes on until the service reports a failure)
LoopConditionNotFailed(st) == st # "error"

\* while (status === "processing" || status === "queued")
LoopCondition(st) == st = "processing" \/ st = "queued"

\* (a slip: the estimate not clamped)
PollProgressUnclamped(n) == ProgressPolling + n * ProgressStep

\* Math.min(80, 50 + pollCount * 2)
PollProgress(n) == Min(ProgressCap, ProgressPolling + n * ProgressStep)

\* (a slip: the extension alone stripped, at the last "." of the name)
BeforeLastDot(name) ==
    LET dots == { i \in DOMAIN name : name[i] = "." }
    IN  IF dots = {} THEN name
        ELSE SubSeq(name, 1, (CHOOSE i \in dots : \A j \in dots : j <= i) - 1)

\* name.split(".")[0]: the pieces before the first "."
RECURSIVE FirstSegment(_)
FirstSegment(name) ==
    IF name = <<>> \/ Head(name) = "." THEN <<>>
    ELSE <<Head(name)>> \o FirstSegment(Tail(name))

\* `${audioFile.value.name.split(".")[0]}.srt` / `.txt`
Filename(name, ext) == FirstSegment(name) \o <<".", ext>>

-----------------------------------------------------------------------------
(* Messages *)

MsgNoKey      == <<"Please enter your AssemblyAI API key">>
MsgNoFile     == <<"Please select an audio file">>
MsgNotAudio   == <<"Please select an audio file (MP3, WAV, etc.)">>
MsgUpload     == <<"Failed to upload audio file">>
MsgSubmit     == <<"Failed to submit transcription request">>
MsgPoll       == <<"Failed to check transcription status">>
MsgSrt        == <<"Failed to get SRT file">>
MsgRejected   == <<"Failed to fetch">>
MsgNullName   == <<"Cannot read properties of null (reading 'name')">>
MsgStatus(st) == <<"Transcription failed with status: ", st>>
MsgSuccess(t) == <<"Your ", t, " has been successfully processed and downloaded!">>

StageUpload     == <<"Uploading audio file...">>
StageSubmit     == <<"Submitting transcription request...">>
StagePolling    == <<"Processing audio...">>
StagePercent(p) == <<"Processing audio... (", p, "%)">>
StageOutput     == <<"Generating output file...">>
StageSubtitles  == <<"Generating subtitles...">>
StageComplete   == <<"Complete!">>

-----------------------------------------------------------------------------
(* Construction: the refs' initial values, then onMounted *)

Init ==
    /\ storedKey \in {""} \cup Keys
    /\ apiKey = storedKey
    /\ audioFile = NoFile
    /\ outputType = "transcript"
    /\ characterLength = DefaultCharacterLength
    /\ isLoading = FALSE
    /\ errorMessage = <<>>
    /\ successMessage = <<>>
    /\ processingProgress = 0
    /\ processingStage = <<>>
    /\ pc = "idle"
    /\ audioUrl = NoValue
    /\ transcriptId = NoValue
    /\ status = NoValue
    /\ pollCount = 0
    /\ result = NoPayload
    /\ calls = NoCalls
    /\ inFlight = NoCall
    /\ lastReply = NoReply
    /\ delivered = <<>>
    /\ started = NotStarted

-----------------------------------------------------------------------------
(* UI events *)

\* v-model="apiKey" on the key field
EditApiKey(k) ==
    /\ k # apiKey
    /\ apiKey' = k
    /\ UNCHANGED <<audioFile, outputType, characterLength, view, storedKey, run, obs>>

\* handleDrop with a non-empty file list whose first file is f
HandleDrop(f) ==
    /\ IF StartsWithAudio(f.type)
          THEN audioFile' = f /\ errorMessage' = <<>>
          ELSE errorMessage' = MsgNotAudio /\ UNCHANGED audioFile
    /\ UNCHANGED <<apiKey, outputType, characterLength, isLoading, successMessage,
                   processingProgress, processingStage, storedKey, run, obs>>

\* handleFileChange; the file input is rendered only while no file is selected
HandleFileChange(f) ==
    /\ audioFile = NoFile
    /\ audioFile' = f
    /\ errorMessage' = <<>>
    /\ UNCHANGED <<apiKey, outputType, characterLength, isLoading, successMessage,
                   processingProgress, processingStage, storedKey, run, obs>>

\* clearFile; its button is rendered only while a file is selected
ClearFile ==
    /\ audioFile # NoFile
    /\ audioFile' = NoFile
    /\ UNCHANGED <<apiKey, outputType, characterLength, view, storedKey, run, obs>>

\* the two output-format cards
SelectOutputType(t) ==
    /\ t # outputType
    /\ outputType' = t
    /\ UNCHANGED <<apiKey, audioFile, characterLength, view, storedKey, run, obs>>

\* v-model="characterLength"; the field is rendered only for subtitles
EditCharacterLength(n) ==
    /\ outputType = "subtitles"
    /\ n # characterLength
    /\ characterLength' = n
    /\ UNCHANGED <<apiKey, audioFile, outputType, view, storedKey, run, obs>>

-----------------------------------------------------------------------------
(* processAudio: the requests it sends and the checks it makes *)

\* fetch(".../v2/upload", {Authorization: apiKey.value, body: audioFile.value})
UploadCall(key, file) == [NoCall EXCEPT !.kind = "upload", !.auth = key, !.file = file]

\* (a slip: the audio reference read from a field the upload reply lacks)
SubmitCallWrongField(key, url) ==
    [NoCall EXCEPT !.kind = "submit", !.auth = key, !.url = NoValue]

\* fetch(".../v2/transcript", {Authorization, body: {audio_url: audioUrl, ...}})
SubmitCall(key, url) == [NoCall EXCEPT !.kind = "submit", !.auth = key, !.url = url]

\* fetch(`.../v2/transcript/${transcriptId}`, {Authorization})
StatusCall(key, id) == [NoCall EXCEPT !.kind = "status", !.auth = key, !.id = id]

\* (a slip: the caption length left at its default instead of the field's value)
CaptionCallDefaultChars(key, id, chars) ==
    [NoCall EXCEPT !.kind = "caption", !.auth = key, !.id = id,
                   !.chars = DefaultCharacterLength]

\* fetch(`.../v2/transcript/${transcriptId}/srt?chars_per_caption=${characterLength.value}`)
CaptionCall(key, id, chars) ==
    [NoCall EXCEPT !.kind = "caption", !.auth = key, !.id = id, !.chars = chars]

\* (a slip: the check of a response's ok flag left out)
UncheckedOk(outcome) == TRUE

\* if (!uploadResponse.ok) throw ...
UploadOk(outcome) == outcome = "ok"
\* if (!transcriptResponse.ok) throw ...
SubmitOk(outcome) == outcome = "ok"
\* if (!pollingResponse.ok) throw ...
PollOk(outcome) == outcome = "ok"
\* if (!srtResponse.ok) throw ...
SrtOk(outcome) == outcome = "ok"

\* if (outputType.value === "subtitles")
WantsSubtitles(t) == t = "subtitles"

\* (a slip: another field of the payload taken for the transcript)
TranscriptOutputWrongField(res) == res.status

\* output = result.text
TranscriptOutput(res) == res.text

\* output = await srtResponse.text()
SubtitleOutput(body) == body

\* throw new Error(`Transcription failed with status: ${status}`)
StatusFailure(st, res) == MsgStatus(st)

\* processAudio returns: its locals go out of scope, nothing is in flight
EndRun ==
    /\ pc' = "idle"
    /\ audioUrl' = NoValue
    /\ transcriptId' = NoValue
    /\ status' = NoValue
    /\ pollCount' = 0
    /\ result' = NoPayload
    /\ inFlight' = NoCall
    /\ started' = NotStarted

\* (a slip: a failed stage handled by starting over from the upload)
RetryFromUpload(msg) ==
    /\ errorMessage' = msg
    /\ pc' = "upload"
    /\ audioUrl' = NoValue
    /\ transcriptId' = NoValue
    /\ status' = NoValue
    /\ pollCount' = 0
    /\ result' = NoPayload
    /\ inFlight' = UploadCall(apiKey, audioFile)
    /\ calls' = [calls EXCEPT !.upload = @ + 1]
    /\ UNCHANGED <<isLoading, successMessage, delivered, started>>

\* (a slip: the error caught and dropped, the message never shown)
FailSilently(msg) ==
    /\ isLoading' = FALSE
    /\ EndRun
    /\ UNCHANGED <<errorMessage, successMessage, delivered, calls>>

\* (a slip: no finally, isLoading reset on the success path only)
FailStillLoading(msg) ==
    /\ errorMessage' = msg
    /\ EndRun
    /\ UNCHANGED <<isLoading, successMessage, delivered, calls>>

\* catch: errorMessage = error.message; finally: isLoading = false
Fail(msg) ==
    /\ errorMessage' = msg
    /\ isLoading' = FALSE
    /\ EndRun
    /\ UNCHANGED <<successMessage, delivered, calls>>

\* (a slip: isLoading reset in the catch only, not after a success)
DeliverStillLoading(output, filename) ==
    /\ processingProgress' = ProgressComplete
    /\ processingStage' = StageComplete
    /\ delivered' = Append(delivered, [content |-> output, filename |-> filename])
    /\ successMessage' = MsgSuccess(outputType)
    /\ EndRun
    /\ UNCHANGED <<isLoading, errorMessage, calls>>

\* lines 227-232, then finally: progress 100, downloadFile(output, filename),
\* the success message, isLoading = false
Deliver(output, filename) ==
    /\ processingProgress' = ProgressComplete
    /\ processingStage' = StageComplete
    /\ delivered' = Append(delivered, [content |-> output, filename |-> filename])
    /\ successMessage' = MsgSuccess(outputType)
    /\ isLoading' = FALSE
    /\ EndRun
    /\ UNCHANGED <<errorMessage, calls>>

\* :disabled="isLoading" on the Process button
ButtonEnabled == ~isLoading

\* processAudio, first early return (lines 92-95)
RejectNoKey ==
    /\ ButtonEnabled
    /\ apiKey = ""
    /\ errorMessage' = MsgNoKey
    /\ UNCHANGED <<ui, isLoading, successMessage, processingProgress, processingStage,
                   storedKey, run, obs>>

\* (a slip: the resets of a run made before the file is looked for)
RejectNoFileAfterResets ==
    /\ ButtonEnabled
    /\ apiKey # ""
    /\ storedKey' = apiKey
    /\ audioFile = NoFile
    /\ errorMessage' = MsgNoFile
    /\ successMessage' = <<>>
    /\ processingProgress' = ProgressUpload
    /\ processingStage' = StageUpload
    /\ UNCHANGED <<ui, isLoading, run, obs>>

\* processAudio, saveApiKey and second early return (lines 98-103)
RejectNoFile ==
    /\ ButtonEnabled
    /\ apiKey # ""
    /\ storedKey' = apiKey
    /\ audioFile = NoFile
    /\ errorMessage' = MsgNoFile
    /\ UNCHANGED <<ui, isLoading, successMessage, processingProgress, processingStage,
                   run, obs>>

\* processAudio up to its first await: saveApiKey, the resets, the upload call
StartRun ==
    /\ ButtonEnabled
    /\ apiKey # ""
    /\ storedKey' = apiKey
    /\ audioFile # NoFile
    /\ isLoading' = TRUE
    /\ errorMessage' = <<>>
    /\ successMessage' = <<>>
    /\ processingProgress' = ProgressUpload
    /\ processingStage' = StageUpload
    /\ inFlight' = UploadCall(apiKey, audioFile)
    /\ calls' = [NoCalls EXCEPT !.upload = 1]
    /\ lastReply' = NoReply
    /\ delivered' = <<>>
    /\ started' = [key |-> apiKey, file |-> audioFile, outputType |-> outputType,
                   characterLength |-> characterLength]
    /\ pc' = "upload"
    /\ UNCHANGED <<ui, audioUrl, transcriptId, status, pollCount, result>>

\* the upload response arrives (lines 122-147): check, read upload_url, submit
UploadReturns(outcome, url) ==
    /\ pc = "upload"
    /\ lastReply' = [NoReply EXCEPT !.kind = "upload", !.outcome = outcome, !.url = url]
    /\ UNCHANGED <<ui, storedKey>>
    /\ IF outcome = "rejected" \/ ~UploadOk(outcome)
          THEN /\ Fail(IF outcome = "rejected" THEN MsgRejected ELSE MsgUpload)
               /\ UNCHANGED <<processingProgress, processingStage>>
          ELSE /\ audioUrl' = url
               /\ processingProgress' = ProgressSubmit
               /\ processingStage' = StageSubmit
               /\ inFlight' = SubmitCall(apiKey, url)
               /\ calls' = [calls EXCEPT !.submit = @ + 1]
               /\ pc' = "submit"
               /\ UNCHANGED <<isLoading, errorMessage, successMessage, transcriptId,
                              status, pollCount, result, delivered, started>>

\* lines 192-235 with the status st and payload res the loop ended on, the
\* job id, the poll count and what the progress bar showed when the loop was left
AfterLoop(st, res, id, n, progress, stage) ==
    IF st = "completed"
       THEN IF WantsSubtitles(outputType)
               THEN /\ processingStage' = StageSubtitles
                    /\ processingProgress' = ProgressFormat
                    /\ inFlight' = CaptionCall(apiKey, id, characterLength)
                    /\ calls' = [calls EXCEPT !.caption = @ + 1]
                    /\ pc' = "caption"
                    /\ transcriptId' = id
                    /\ status' = st
                    /\ pollCount' = n
                    /\ result' = res
                    /\ UNCHANGED <<isLoading, errorMessage, successMessage, delivered,
                                   started, audioUrl>>
               ELSE IF audioFile = NoFile
                       THEN /\ processingProgress' = ProgressFormat
                            /\ processingStage' = StageOutput
                            /\ Fail(MsgNullName)
                       ELSE Deliver(TranscriptOutput(res), Filename(audioFile.name, "txt"))
       ELSE /\ processingProgress' = progress
            /\ processingStage' = stage
            /\ Fail(StatusFailure(st, res))

\* (a slip: the loop queries again at once, the wait left out)
LoopTestNoWait(st, res, id, n, progress, stage) ==
    IF LoopCondition(st)
       THEN /\ pc' = "pollFetch"
            /\ inFlight' = StatusCall(apiKey, id)
            /\ calls' = [calls EXCEPT !.status = @ + 1]
            /\ transcriptId' = id
            /\ status' = st
            /\ pollCount' = n
            /\ result' = res
            /\ processingProgress' = progress
            /\ processingStage' = stage
            /\ UNCHANGED <<isLoading, errorMessage, successMessage, delivered, started,
                           audioUrl>>
       ELSE AfterLoop(st, res, id, n, progress, stage)

\* the loop test (line 164) with status st: start the timer, or leave the loop
LoopTest(st, res, id, n, progress, stage) ==
    IF LoopCondition(st)
       THEN /\ pc' = "pollWait"
            /\ inFlight' = NoCall
            /\ calls' = [calls EXCEPT !.wait = @ + 1]
            /\ transcriptId' = id
            /\ status' = st
            /\ pollCount' = n
            /\ result' = res
            /\ processingProgress' = progress
            /\ processingStage' = stage
            /\ UNCHANGED <<isLoading, errorMessage, successMessage, delivered, started,
                           audioUrl>>
       ELSE AfterLoop(st, res, id, n, progress, stage)

\* the submit response arrives (lines 149-165): check, read id, enter the loop
SubmitReturns(outcome, id) ==
    /\ pc = "submit"
    /\ lastReply' = [NoReply EXCEPT !.kind = "submit", !.outcome = outcome, !.id = id]
    /\ UNCHANGED <<ui, storedKey>>
    /\ IF outcome = "rejected" \/ ~SubmitOk(outcome)
          THEN /\ Fail(IF outcome = "rejected" THEN MsgRejected ELSE MsgSubmit)
               /\ UNCHANGED <<processingProgress, processingStage>>
          ELSE LoopTest("processing", NoPayload, id, 0, ProgressPolling, StagePolling)

\* the one-second timer fires (lines 165-175): the status query is sent
TimerFires ==
    /\ pc = "pollWait"
    /\ inFlight' = StatusCall(apiKey, transcriptId)
    /\ calls' = [calls EXCEPT !.status = @ + 1]
    /\ pc' = "pollFetch"
    /\ UNCHANGED <<ui, view, storedKey, audioUrl, transcriptId, status, pollCount, result,
                   lastReply, delivered, started>>

\* (a slip: only the polls that read "processing" counted)
NextPollCountProcessingOnly(n, st) == IF st = "processing" THEN n + 1 ELSE n

\* pollCount++ (line 185), after a poll that read status st
NextPollCount(n, st) == n + 1

\* the progress bar after a poll that read status st (lines 185-189)
ProgressAfterPoll(st, n) == IF st = "processing" THEN PollProgress(n) ELSE processingProgress
StageAfterPoll(st, n) ==
    IF st = "processing" THEN StagePercent(PollProgress(n)) ELSE processingStage

\* the status response arrives (lines 177-190, then 192-235 when the loop ends)
StatusReturns(outcome, payload) ==
    /\ pc = "pollFetch"
    /\ lastReply' = [NoReply EXCEPT !.kind = "status", !.outcome = outcome,
                                    !.payload = payload]
    /\ UNCHANGED <<ui, storedKey>>
    /\ IF outcome = "rejected" \/ ~PollOk(outcome)
          THEN /\ Fail(IF outcome = "rejected" THEN MsgRejected ELSE MsgPoll)
               /\ UNCHANGED <<processingProgress, processingStage>>
          ELSE LoopTest(payload.status, payload, transcriptId,
                           NextPollCount(pollCount, payload.status),
                           ProgressAfterPoll(payload.status,
                                             NextPollCount(pollCount, payload.status)),
                           StageAfterPoll(payload.status,
                                          NextPollCount(pollCount, payload.status)))

\* the caption response arrives (lines 215-232)
CaptionReturns(outcome, body) ==
    /\ pc = "caption"
    /\ lastReply' = [NoReply EXCEPT !.kind = "caption", !.outcome = outcome, !.body = body]
    /\ UNCHANGED <<ui, storedKey>>
    /\ IF outcome = "rejected" \/ ~SrtOk(outcome)
          THEN /\ Fail(IF outcome = "rejected" THEN MsgRejected ELSE MsgSrt)
               /\ UNCHANGED <<processingProgress, processingStage>>
          ELSE IF audioFile = NoFile
                  THEN /\ Fail(MsgNullName)
                       /\ UNCHANGED <<processingProgress, processingStage>>
                  ELSE Deliver(SubtitleOutput(body), Filename(audioFile.name, "srt"))

-----------------------------------------------------------------------------
(* The component under every interleaving of UI events, timers and replies *)

\* the user's events, with the values they can enter drawn from the given sets
UiEvent(keys, drops, picks, lens) ==
    \/ \E k \in {""} \cup keys : EditApiKey(k)
    \/ \E f \in drops : HandleDrop(f)
    \/ \E f \in picks : HandleFileChange(f)
    \/ ClearFile
    \/ \E t \in OutputTypes : SelectOutputType(t)
    \/ \E n \in lens : EditCharacterLength(n)

\* the Process button
ProcessAudio ==
    \/ RejectNoKey
    \/ RejectNoFile
    \/ StartRun

\* the service's answers, with their contents drawn from the given sets
Reply(urls, ids, payloads, bodies) ==
    \/ \E o \in Outcomes :
         \E u \in (IF o = "ok" THEN urls ELSE {NoValue}) : UploadReturns(o, u)
    \/ \E o \in Outcomes :
         \E i \in (IF o = "ok" THEN ids ELSE {NoValue}) : SubmitReturns(o, i)
    \/ \E o \in Outcomes :
         \E p \in (IF o = "ok" THEN payloads ELSE {NoPayload}) : StatusReturns(o, p)
    \/ \E o \in Outcomes :
         \E b \in (IF o = "ok" THEN bodies ELSE {NoValue}) : CaptionReturns(o, b)

Next ==
    \/ UiEvent(Keys, DropFiles, AudioFiles, CharacterLengths)
    \/ ProcessAudio
    \/ (calls.status < MaxPolls /\ TimerFires)
    \/ Reply(UploadUrls, JobIds, StatusPayloads, SrtBodies)

Spec == Init /\ [][Next]_vars

(* Long polling: runs of up to MaxDeepPolls status queries, with one key,   *)
(* one file and one reply text to choose from.                              *)

PollUiEvent ==
    \/ \E k \in {"", "key-1"} : EditApiKey(k)
    \/ HandleDrop(FileA)
    \/ HandleFileChange(FileA)
    \/ ClearFile
    \/ \E t \in OutputTypes : SelectOutputType(t)

PollPayloads == { p \in StatusPayloads : p.text \in {NoValue, "Hello world"} }

NextPoll ==
    \/ PollUiEvent
    \/ ProcessAudio
    \/ (calls.status < MaxDeepPolls /\ TimerFires)
    \/ Reply({"url-1"}, {"job-1"}, PollPayloads, {"1\n...\nBye\n"})

SpecPoll == Init /\ [][NextPoll]_vars

(* The scenario of a job that is queued, then processing for two polls,     *)
(* then completed: the status replies are the script's, in order.           *)

Script == <<"queued", "processing", "processing", "completed">>

ScriptedStatus ==
    /\ calls.status \in DOMAIN Script
    /\ \E p \in StatusPayloads :
          /\ p.status = Script[calls.status]
          /\ StatusReturns("ok", p)

NextScenario ==
    \/ PollUiEvent
    \/ ProcessAudio
    \/ TimerFires
    \/ \E o \in Outcomes : UploadReturns(o, IF o = "ok" THEN "url-1" ELSE NoValue)
    \/ \E o \in Outcomes : SubmitReturns(o, IF o = "ok" THEN "job-1" ELSE NoValue)
    \/ ScriptedStatus
    \/ \E o \in Outcomes :
         \E b \in (IF o = "ok" THEN SrtBodies ELSE {NoValue}) : CaptionReturns(o, b)

SpecScenario == Init /\ [][NextScenario]_vars

(* File names: every name of up to MaxNameLen pieces can be selected, and   *)
(* the two names of the documentation.                                      *)

NamePieces == {"meeting", "."}
Names == UNION { [1..n -> NamePieces] : n \in 0..MaxNameLen }
NamedFiles ==
    { [name |-> nm, type |-> <<"audio/", "mpeg">>, size |-> 1] : nm \in Names }
      \cup AudioFiles

NameUiEvent ==
    \/ \E f \in NamedFiles : HandleDrop(f)
    \/ \E f \in NamedFiles : HandleFileChange(f)
    \/ ClearFile
    \/ \E t \in OutputTypes : SelectOutputType(t)

NextNames ==
    \/ NameUiEvent
    \/ ProcessAudio
    \/ (calls.status < 1 /\ TimerFires)
    \/ Reply({"url-1"}, {"job-1"}, PollPayloads, {"1\n...\nBye\n"})

SpecNames == Init /\ [][NextNames]_vars

(* Progress: every request is answered, the timer fires, and the service   *)
(* answers at most MaxBusyPolls status queries of a run with queued or      *)
(* processing.  The user is under no obligation.                            *)

BusyStatuses == {"queued", "processing"}

LiveStatus ==
    \E o \in Outcomes :
      \E p \in (IF o = "ok"
                 THEN { q \in PollPayloads :
                          q.status \in BusyStatuses => calls.status <= MaxBusyPolls }
                 ELSE {NoPayload}) : StatusReturns(o, p)

ServiceReplies ==
    \/ \E o \in Outcomes : UploadReturns(o, IF o = "ok" THEN "url-1" ELSE NoValue)
    \/ \E o \in Outcomes : SubmitReturns(o, IF o = "ok" THEN "job-1" ELSE NoValue)
    \/ LiveStatus
    \/ \E o \in Outcomes : CaptionReturns(o, IF o = "ok" THEN "1\n...\nBye\n" ELSE NoValue)

NextLive ==
    \/ PollUiEvent
    \/ ProcessAudio
    \/ TimerFires
    \/ ServiceReplies

SpecLive ==
    /\ Init /\ [][NextLive]_vars
    /\ WF_vars(TimerFires)
    /\ WF_vars(ServiceReplies)

TypeOK ==
    /\ apiKey \in {""} \cup Keys
    /\ audioFile \in AudioFiles \cup {NoFile}
    /\ outputType \in OutputTypes
    /\ characterLength \in CharacterLengths
    /\ isLoading \in BOOLEAN
    /\ pc \in {"idle", "upload", "submit", "pollWait", "pollFetch", "caption"}
    /\ processingProgress \in 0..ProgressComplete
    /\ Len(delivered) <= 1

-----------------------------------------------------------------------------
(* What a step of a run is, as seen from outside *)

\* this step sends a request of the given kind
Issued(kind) == inFlight'.kind = kind /\ inFlight # inFlight'

\* this step is the arrival of the reply to the request of the given kind
Replied(kind) == pc = kind /\ pc' # kind
StatusReplied == pc = "pollFetch" /\ pc' # "pollFetch"

\* the run is in its poll loop: waiting for the timer or for a status reply
InLoop  == pc \in {"pollWait", "pollFetch"}
InLoopN == pc' \in {"pollWait", "pollFetch"}

\* this step ends the run in failure, sending nothing more and delivering nothing
AbortsWith(msg) ==
    /\ pc' = "idle"
    /\ isLoading' = FALSE
    /\ errorMessage' = msg
    /\ successMessage' = <<>>
    /\ inFlight' = NoCall
    /\ calls' = calls
    /\ delivered' = <<>>

\* between runs nothing is sent
QuietWhenIdle ==
    /\ pc = "idle" => inFlight = NoCall
    /\ (pc = "idle" /\ pc' = "idle") => calls' = calls /\ inFlight' = NoCall

-----------------------------------------------------------------------------
(* C1: the calls of a run are made in the order upload, submit, status      *)
(* queries, caption query; each is sent only once the call before it has    *)
(* returned success, one at a time, and the caption query only for          *)
(* subtitles.                                                               *)

CallOrderStep ==
    /\ Issued("upload") =>
         /\ pc = "idle" /\ inFlight = NoCall
         /\ calls' = [NoCalls EXCEPT !.upload = 1]
    /\ Issued("submit") =>
         /\ inFlight.kind = "upload"
         /\ lastReply'.kind = "upload" /\ lastReply'.outcome = "ok"
         /\ calls' = [NoCalls EXCEPT !.upload = 1, !.submit = 1]
    /\ Issued("status") =>
         /\ inFlight = NoCall
         /\ lastReply.kind \in {"submit", "status"} /\ lastReply.outcome = "ok"
         /\ calls.upload = 1 /\ calls.submit = 1 /\ calls.caption = 0
         /\ calls'.status = calls.status + 1
    /\ Issued("caption") =>
         /\ inFlight.kind = "status"
         /\ lastReply'.kind = "status" /\ lastReply'.outcome = "ok"
         /\ calls.upload = 1 /\ calls.submit = 1 /\ calls.status >= 1
         /\ calls.caption = 0 /\ calls'.caption = 1
         /\ outputType = "subtitles"
    /\ calls' # calls => \E k \in {"upload", "submit", "status", "caption"} : Issued(k)
                         \/ calls'.wait = calls.wait + 1

C1_CallOrder == [][CallOrderStep /\ QuietWhenIdle]_vars

C1_Witness ==
    /\ pc = "caption" /\ inFlight.kind = "caption"
    /\ calls = [NoCalls EXCEPT !.upload = 1, !.submit = 1, !.wait = 2, !.status = 2,
                               !.caption = 1]

-----------------------------------------------------------------------------
(* C2: the poll loop goes on exactly as long as the status read is queued   *)
(* or processing, whatever the poll count, the progress shown and the UI    *)
(* events in between; it is left once, by the first status reply that is    *)
(* not a success or carries another status, and no status query follows.    *)

NonTerminal == {"queued", "processing"}

PollLoopStep ==
    /\ StatusReplied =>
         (InLoopN <=> /\ lastReply'.outcome = "ok"
                      /\ lastReply'.payload.status \in NonTerminal)
    /\ (StatusReplied /\ lastReply'.outcome = "ok"
          /\ lastReply'.payload.status \in {"completed", "error"}) => ~InLoopN
    /\ (InLoop /\ ~InLoopN) => StatusReplied
    /\ (~InLoop /\ InLoopN) => Replied("submit")
    /\ Issued("status") =>
         /\ pc = "pollWait"
         /\ lastReply.kind = "status" =>
              /\ lastReply.outcome = "ok"
              /\ lastReply.payload.status \in NonTerminal

C2_PollLoopExit == [][PollLoopStep]_vars

C2_Witness ==
    /\ pc = "pollFetch"
    /\ calls.status = MaxDeepPolls
    /\ processingProgress = 80
    /\ lastReply.payload.status = "queued"
    /\ apiKey # started.key
    /\ audioFile = NoFile

-----------------------------------------------------------------------------
(* C3: while polling, the progress estimate starts at 50, never goes down,  *)
(* stays within 50..80, and after the k-th status query of the run, when    *)
(* that query reads processing, it is min(80, 50 + 2k).                     *)

ProgressStepOK ==
    /\ (~InLoop /\ InLoopN) => processingProgress' = 50
    /\ (InLoop /\ InLoopN) => processingProgress' >= processingProgress
    /\ (StatusReplied /\ lastReply'.outcome = "ok"
          /\ lastReply'.payload.status = "processing") =>
         processingProgress' =
            (IF 50 + 2 * calls.status < 80 THEN 50 + 2 * calls.status ELSE 80)

C3_ProgressEstimate ==
    /\ [](InLoop => processingProgress \in 50..80)
    /\ [][ProgressStepOK]_vars

C3_Witness ==
    /\ pc = "pollWait"
    /\ calls.status = MaxDeepPolls
    /\ lastReply.payload.status = "processing"
    /\ processingProgress = 80

-----------------------------------------------------------------------------
(* C4: with the status replies queued, processing, processing, completed,   *)
(* the run makes exactly 4 status queries.  The progress shown after the    *)
(* first three is 50, 54, 56 (every poll is counted, the queued one too);   *)
(* the claim's 50, 52, 54 is stated as C4_Original.                         *)

AfterPoll(k) == pc = "pollWait" /\ calls.status = k

PastTheLoop ==
    \/ pc = "caption"
    \/ pc = "idle" /\ lastReply.kind \in {"status", "caption"}

C4_Original ==
    /\ AfterPoll(1) => processingProgress = 50
    /\ AfterPoll(2) => processingProgress = 52
    /\ AfterPoll(3) => processingProgress = 54
    /\ PastTheLoop => calls.status = 4

C4_Scenario ==
    /\ AfterPoll(1) => processingProgress = 50
    /\ AfterPoll(2) => processingProgress = 54
    /\ AfterPoll(3) => processingProgress = 56
    /\ PastTheLoop => calls.status = 4

C4_Witness ==
    /\ pc = "idle"
    /\ lastReply.kind = "status"
    /\ lastReply.payload.status = "completed"
    /\ calls.status = 4
    /\ processingProgress = 100

-----------------------------------------------------------------------------
(* C5: an upload or submit call that does not return success ends the run   *)
(* with that stage's error, and no call of a later stage is made.           *)

FailureText(outcome, msg) == IF outcome = "rejected" THEN MsgRejected ELSE msg

EarlyFailureStep ==
    /\ (Replied("upload") /\ lastReply'.outcome # "ok") =>
         /\ AbortsWith(FailureText(lastReply'.outcome, MsgUpload))
         /\ calls' = [NoCalls EXCEPT !.upload = 1]
    /\ (Replied("submit") /\ lastReply'.outcome # "ok") =>
         /\ AbortsWith(FailureText(lastReply'.outcome, MsgSubmit))
         /\ calls' = [NoCalls EXCEPT !.upload = 1, !.submit = 1]
    /\ (pc = "idle" /\ lastReply.kind \in {"upload", "submit"} /\ ~Issued("upload")) =>
         /\ calls' = calls
         /\ inFlight' = NoCall

C5_EarlyFailure == [][EarlyFailureStep]_vars

C5_Witness ==
    /\ pc = "idle"
    /\ lastReply.kind = "submit"
    /\ lastReply.outcome = "notok"
    /\ errorMessage = MsgSubmit
    /\ calls = [NoCalls EXCEPT !.upload = 1, !.submit = 1]

-----------------------------------------------------------------------------
(* C6: one status query that does not return success ends the run at once   *)
(* with the poll error: no further status query, no caption query, no file, *)
(* however many status queries succeeded before it.                         *)

PollFailureStep ==
    /\ (StatusReplied /\ lastReply'.outcome # "ok") =>
         /\ AbortsWith(FailureText(lastReply'.outcome, MsgPoll))
         /\ calls'.caption = 0
    /\ (pc = "idle" /\ lastReply.kind = "status" /\ lastReply.outcome # "ok"
          /\ ~Issued("upload")) =>
         /\ calls' = calls
         /\ inFlight' = NoCall
         /\ delivered' = <<>>

C6_PollFailure == [][PollFailureStep]_vars

C6_Witness ==
    /\ pc = "idle"
    /\ lastReply.kind = "status"
    /\ lastReply.outcome = "notok"
    /\ errorMessage = MsgPoll
    /\ calls.status = MaxDeepPolls
    /\ calls.caption = 0
    /\ delivered = <<>>

-----------------------------------------------------------------------------
(* C7: a successful status reply whose status is none of queued,            *)
(* processing, completed, error ends the run in failure right after that    *)
(* poll: the loop does not go on, nothing more is sent, no file is          *)
(* delivered.                                                               *)

KnownStatuses == {"queued", "processing", "completed", "error"}

UnexpectedStatusStep ==
    (StatusReplied /\ lastReply'.outcome = "ok"
       /\ lastReply'.payload.status \notin KnownStatuses) =>
      /\ ~InLoopN
      /\ AbortsWith(MsgStatus(lastReply'.payload.status))
      /\ errorMessage' # <<>>

C7_UnexpectedStatus == [][UnexpectedStatusStep]_vars

C7_Witness ==
    /\ pc = "idle"
    /\ lastReply.kind = "status"
    /\ lastReply.payload.status = "paused"
    /\ errorMessage = MsgStatus("paused")
    /\ calls.status = 2
    /\ delivered = <<>>

-----------------------------------------------------------------------------
(* C8: when the status reply reports error, the loop is left and the run    *)
(* ends in failure with the reason the service gave in that payload.        *)
(* The code reports the status value, not the payload's reason.             *)

Carries(msg, text) == \E i \in DOMAIN msg : msg[i] = text

C8_RemoteReason ==
    [][(StatusReplied /\ lastReply'.outcome = "ok"
          /\ lastReply'.payload.status = "error") =>
         /\ ~InLoopN
         /\ pc' = "idle"
         /\ errorMessage' # <<>>
         /\ Carries(errorMessage', lastReply'.payload.error)]_vars

-----------------------------------------------------------------------------
(* C9: when the transcript is the output asked for and the job completes,   *)
(* the body delivered is the text of the completed status payload, and      *)
(* no call follows the last status query.                                   *)

TranscriptStep ==
    (StatusReplied /\ lastReply'.outcome = "ok"
       /\ lastReply'.payload.status = "completed" /\ outputType = "transcript") =>
      /\ pc' = "idle"
      /\ inFlight' = NoCall
      /\ calls' = calls
      /\ Len(delivered') <= 1
      /\ audioFile # NoFile => Len(delivered') = 1
      /\ \A i \in DOMAIN delivered' : delivered'[i].content = lastReply'.payload.text

TranscriptDelivered ==
    (delivered # <<>> /\ calls.caption = 0) =>
      /\ pc = "idle"
      /\ lastReply.kind = "status"
      /\ lastReply.payload.status = "completed"
      /\ Len(delivered) = 1
      /\ delivered[1].content = lastReply.payload.text

C9_TranscriptBody == []TranscriptDelivered /\ [][TranscriptStep]_vars

C9_Witness ==
    /\ pc = "idle"
    /\ calls.status = 2
    /\ calls.caption = 0
    /\ lastReply.payload.text = "Bye"
    /\ Len(delivered) = 1
    /\ delivered[1].content = "Bye"
    /\ successMessage = MsgSuccess("transcript")

-----------------------------------------------------------------------------
(* C10: when subtitles are the output asked for and the job completes, the  *)
(* run sends exactly one caption query, for the run's job id and with the   *)
(* character length of the field, and what it delivers is that reply's text *)
(* unchanged; a caption query that does not return success ends the run     *)
(* with its error and no file.                                              *)

SubtitleStep ==
    /\ (StatusReplied /\ lastReply'.outcome = "ok"
          /\ lastReply'.payload.status = "completed" /\ outputType = "subtitles") =>
         /\ Issued("caption")
         /\ delivered' = <<>>
    /\ Issued("caption") =>
         /\ inFlight' = [kind |-> "caption", auth |-> apiKey, url |-> NoValue,
                         id |-> transcriptId, file |-> NoFile, chars |-> characterLength]
         /\ transcriptId \in JobIds
         /\ calls.caption = 0 /\ calls'.caption = 1
    /\ Replied("caption") =>
         /\ pc' = "idle"
         /\ inFlight' = NoCall
         /\ calls' = calls
    /\ (Replied("caption") /\ lastReply'.outcome = "ok") =>
         /\ Len(delivered') <= 1
         /\ audioFile # NoFile => Len(delivered') = 1
         /\ \A i \in DOMAIN delivered' : delivered'[i].content = lastReply'.body
    /\ (Replied("caption") /\ lastReply'.outcome # "ok") =>
         AbortsWith(FailureText(lastReply'.outcome, MsgSrt))

C10_Subtitles == [][SubtitleStep]_vars

C10_Witness ==
    /\ pc = "idle"
    /\ calls.caption = 1
    /\ lastReply.kind = "caption"
    /\ lastReply.outcome = "ok"
    /\ characterLength = 40
    /\ Len(delivered) = 1
    /\ delivered[1].content = lastReply.body
    /\ delivered[1].filename = <<"meeting", ".", "srt">>
-----------------------------------------------------------------------------
(* C11: the filename of a delivered file is the part of the selected file's *)
(* name before its first "." (the whole name when it has none), followed by *)
(* ".txt" when the transcript is delivered and ".srt" when the subtitles    *)
(* are; "meeting.recording.mp3" gives "meeting", "podcast" gives "podcast". *)

\* s is what precedes the first "." of name
IsStem(s, name) ==
    /\ Len(s) <= Len(name)
    /\ \A i \in DOMAIN s : s[i] = name[i] /\ s[i] # "."
    /\ Len(s) < Len(name) => name[Len(s) + 1] = "."

\* this step delivers a file
Delivers == delivered' # <<>> /\ delivered' # delivered

FilenameStep ==
    Delivers =>
      LET f == delivered'[Len(delivered')].filename
          ext == IF Replied("caption") THEN "srt" ELSE "txt"
      IN  /\ Len(f) >= 2
          /\ IsStem(SubSeq(f, 1, Len(f) - 2), audioFile.name)
          /\ f[Len(f) - 1] = "."
          /\ f[Len(f)] = ext
          /\ StatusReplied \/ Replied("caption")
          /\ audioFile.name = <<"meeting", ".", "recording", ".", "mp3">> =>
                f = <<"meeting", ".", ext>>
          /\ audioFile.name = <<"podcast">> => f = <<"podcast", ".", ext>>

C11_Filename == [][FilenameStep]_vars

C11_Witness ==
    /\ Len(delivered) = 1
    /\ audioFile.name = <<"meeting", ".", ".">>
    /\ delivered[1].filename = <<"meeting", ".", "srt">>
-----------------------------------------------------------------------------
(* C12: a run started with an empty (zero-byte) audio payload is rejected   *)
(* before any network call: no upload, submit, status or caption call is    *)
(* made for it.  The code never looks at the size of the file.              *)

C12_EmptyPayload ==
    /\ started.file.size = 0 => (inFlight = NoCall /\ calls = NoCalls)
    /\ inFlight.kind = "upload" => inFlight.file.size > 0
-----------------------------------------------------------------------------
(* C13: a run is single-shot: it makes at most one upload call, one submit  *)
(* call and one caption call, it never goes back to an earlier stage, and   *)
(* a call that fails ends it: nothing is sent again, and an upload call is  *)
(* only ever the first call of a new run started with the button.           *)

StageOf(p) ==
    CASE p = "upload" -> 1
      [] p = "submit" -> 2
      [] p \in {"pollWait", "pollFetch"} -> 3
      [] p = "caption" -> 4
      [] OTHER -> 0

\* this step handles a reply that is not a success
FailedCall == pc \notin {"idle", "pollWait"} /\ lastReply' # lastReply /\ lastReply'.outcome # "ok"

SingleShotStep ==
    /\ (pc # "idle" /\ pc' # "idle") => StageOf(pc') >= StageOf(pc)
    /\ FailedCall =>
         /\ pc' = "idle"
         /\ inFlight' = NoCall
         /\ calls' = calls
         /\ ~isLoading'
    /\ Issued("upload") => (pc = "idle" /\ ButtonEnabled /\ calls'.upload = 1)
    /\ (pc # "idle" /\ pc' = "idle") => (calls' = calls /\ inFlight' = NoCall)

C13_SingleShot ==
    /\ [](calls.upload <= 1 /\ calls.submit <= 1 /\ calls.caption <= 1)
    /\ [][SingleShotStep]_vars

C13_Witness ==
    /\ pc = "idle"
    /\ lastReply.kind = "caption"
    /\ lastReply.outcome = "notok"
    /\ calls = [NoCalls EXCEPT !.upload = 1, !.submit = 1, !.wait = 2, !.status = 2,
                               !.caption = 1]
    /\ inFlight = NoCall
-----------------------------------------------------------------------------
(* C14: the submit call of a run names the upload URI that the run's upload *)
(* call returned; every status query and the caption query of the run name  *)
(* the job id that the run's submit call returned; the handles of a run are *)
(* kept unchanged until it ends and are not carried into the next run.      *)

HandleStep ==
    /\ Issued("upload") => (inFlight'.url = NoValue /\ inFlight'.id = NoValue)
    /\ Issued("submit") =>
         /\ Replied("upload") /\ lastReply'.outcome = "ok"
         /\ lastReply'.url \in UploadUrls
         /\ inFlight'.url = lastReply'.url
         /\ audioUrl' = lastReply'.url
    /\ (Replied("submit") /\ lastReply'.outcome = "ok") =>
         /\ lastReply'.id \in JobIds
         /\ transcriptId' = lastReply'.id
    /\ (pc \in {"pollWait", "pollFetch", "caption"} /\ pc' # "idle") =>
         (transcriptId' = transcriptId /\ audioUrl' = audioUrl)
    /\ Issued("status") => (inFlight'.id = transcriptId /\ transcriptId \in JobIds)
    /\ Issued("caption") => (inFlight'.id = transcriptId /\ transcriptId \in JobIds)

C14_Handles ==
    /\ [](pc \in {"idle", "upload"} => (audioUrl = NoValue /\ transcriptId = NoValue))
    /\ [][HandleStep]_vars

C14_Witness ==
    /\ pc = "caption"
    /\ calls.status = 2
    /\ audioUrl = "url-1"
    /\ inFlight.id = "job-2"
-----------------------------------------------------------------------------
(* C15: the output request is fixed when the run starts: the branch the     *)
(* formatter takes and the caption length it sends are those selected when  *)
(* the run started, whatever is selected or typed while the run uploads,    *)
(* submits or polls.  The code reads both refs when it gets there.          *)

\* this step handles the status reply that completes the job
Completes ==
    StatusReplied /\ lastReply'.outcome = "ok" /\ lastReply'.payload.status = "completed"

C15_OutputRequestFixed ==
    [][/\ Completes => (Issued("caption") <=> started.outputType = "subtitles")
       /\ Issued("caption") => inFlight'.chars = started.characterLength]_vars
-----------------------------------------------------------------------------
(* C16: the audio source is fixed when the run starts: the name from which  *)
(* the delivered filename is derived is the name of the file whose bytes    *)
(* the run uploaded, also when another file is dropped or the file is       *)
(* cleared during the run.  The code reads audioFile when it delivers.      *)

\* this step has the output of the run in hand
OutputReady ==
    \/ Completes /\ ~Issued("caption")
    \/ Replied("caption") /\ lastReply'.outcome = "ok"

C16_AudioSourceFixed ==
    [][/\ Issued("upload") => inFlight'.file = started'.file
       /\ OutputReady => Delivers
       /\ Delivers =>
            LET f == delivered'[Len(delivered')].filename
            IN  IsStem(SubSeq(f, 1, Len(f) - 2), started.file.name)]_vars
-----------------------------------------------------------------------------
(* C17: every call of a run (upload, submit, each status query, caption     *)
(* query) carries as its authorization the key that was in the field when   *)
(* the run started, also when the field is edited during the run.  The code *)
(* reads apiKey for every call.                                             *)

CallKinds == {"upload", "submit", "status", "caption"}

C17_CredentialFixed ==
    [][\A k \in CallKinds :
         Issued(k) => /\ inFlight'.auth = started'.key
                      /\ inFlight'.auth # ""]_vars
-----------------------------------------------------------------------------
(* C18: a run that fails at any stage (upload, submit, status query, error  *)
(* or unexpected status, caption query) ends with one non-empty error       *)
(* message, an empty success message and no file delivered; the next call   *)
(* sent after it is the upload call of a new run, which starts from         *)
(* nothing: no handle and no call count is carried over.                    *)

\* this step handles the reply on which the run fails
RunFails ==
    \/ FailedCall
    \/ /\ StatusReplied /\ lastReply'.outcome = "ok"
       /\ lastReply'.payload.status \notin {"queued", "processing", "completed"}

\* the message for the stage whose reply this step handles
StageFailure ==
    IF lastReply'.outcome = "rejected" THEN MsgRejected
    ELSE CASE lastReply'.kind = "upload"  -> MsgUpload
           [] lastReply'.kind = "submit"  -> MsgSubmit
           [] lastReply'.kind = "caption" -> MsgSrt
           [] lastReply'.kind = "status"  ->
                IF lastReply'.outcome = "ok" THEN MsgStatus(lastReply'.payload.status)
                                             ELSE MsgPoll

FailedRunStep ==
    /\ RunFails =>
         /\ pc' = "idle"
         /\ ~isLoading'
         /\ errorMessage' # <<>>
         /\ errorMessage' = StageFailure
         /\ successMessage' = <<>>
         /\ delivered' = <<>>
         /\ inFlight' = NoCall
    /\ (pc # "idle" /\ pc' = "idle" /\ ~Delivers) =>
         (errorMessage' # <<>> /\ successMessage' = <<>> /\ delivered' = <<>>)
    /\ (pc = "idle" /\ inFlight' # inFlight) =>
         /\ Issued("upload")
         /\ pc' = "upload"
         /\ calls' = [NoCalls EXCEPT !.upload = 1]
         /\ audioUrl' = NoValue /\ transcriptId' = NoValue
         /\ pollCount' = 0
         /\ errorMessage' = <<>>

C18_FailedRun == [][FailedRunStep]_vars

C18_Witness ==
    /\ pc = "idle"
    /\ lastReply.kind = "caption"
    /\ lastReply.outcome = "rejected"
    /\ errorMessage = MsgRejected
    /\ successMessage = <<>>
    /\ delivered = <<>>
    /\ calls.caption = 1
-----------------------------------------------------------------------------
(* C20: when the first status query of a run reads completed, the loop has  *)
(* made exactly one iteration (one wait, one status query) and makes no     *)
(* other; the progress estimate is 50 for the whole of the polling and then *)
(* 90 for the formatting, never a value in between.                         *)

FirstPollStep ==
    /\ (Completes /\ calls.status = 1) =>
         /\ calls.wait = 1
         /\ processingProgress = ProgressPolling
         /\ ~InLoopN
         /\ calls'.wait = 1 /\ calls'.status = 1
         /\ processingProgress' \in {ProgressFormat, ProgressComplete}
         /\ pc' = "caption" => processingProgress' = ProgressFormat
         /\ processingProgress' = ProgressComplete => Delivers
    /\ (pc = "caption" /\ pc' # "upload") =>
         /\ calls'.wait = calls.wait /\ calls'.status = calls.status
         /\ processingProgress' \in {ProgressFormat, ProgressComplete}

FirstPollProgress ==
    /\ (InLoop /\ lastReply.kind = "submit") =>
         (processingProgress = ProgressPolling /\ calls.status <= 1 /\ calls.wait = 1)
    /\ (pc = "caption" /\ calls.status = 1) =>
         (processingProgress = ProgressFormat /\ calls.wait = 1)

C20_FirstPollCompleted == []FirstPollProgress /\ [][FirstPollStep]_vars

C20_Witness ==
    /\ pc = "caption"
    /\ calls.status = 1
    /\ calls.wait = 1
    /\ result.status = "completed"
    /\ processingProgress = 90
-----------------------------------------------------------------------------
(* C21: every status query comes right after one wait of the fixed          *)
(* interval: the first one only after a wait, no two without a wait between *)
(* them, and a run waits nowhere else than in the poll loop.                *)

WaitStep ==
    /\ Issued("status") =>
         /\ pc = "pollWait"
         /\ inFlight = NoCall
         /\ calls.wait = calls.status + 1
         /\ calls'.wait = calls.wait
         /\ calls'.status = calls.wait
    /\ (calls'.wait # calls.wait /\ ~Issued("upload")) =>
         /\ calls'.wait = calls.wait + 1
         /\ calls.wait = calls.status
         /\ pc' = "pollWait"
         /\ pc \in {"submit", "pollFetch"}
         /\ ~Issued("status")
    /\ (pc = "pollWait" /\ pc' # "pollWait") => Issued("status")

WaitsAndQueries ==
    /\ calls.wait \in {calls.status, calls.status + 1}
    /\ pc = "pollWait" <=> (calls.wait = calls.status + 1)
    /\ pc \in {"upload", "submit"} => calls.wait = 0

C21_WaitBeforeQuery == []WaitsAndQueries /\ [][WaitStep]_vars

C21_Witness ==
    /\ pc = "pollFetch"
    /\ inFlight.kind = "status"
    /\ calls.status = 3
    /\ calls.wait = 3
-----------------------------------------------------------------------------
(* C22: processAudio invoked with an empty key or with no file selected     *)
(* sets its error message and returns: no call is made, and isLoading,      *)
(* processingProgress, processingStage and successMessage stay as they      *)
(* were.                                                                    *)

\* processAudio cannot get past its two checks
NotReady == pc = "idle" /\ (apiKey = "" \/ audioFile = NoFile)

\* this step is an invocation that one of the two checks turns down
Rejects ==
    /\ errorMessage' \in {MsgNoKey, MsgNoFile}
    /\ errorMessage' # errorMessage \/ storedKey' # storedKey

RejectedStartStep ==
    /\ NotReady =>
         /\ pc' = "idle"
         /\ inFlight' = NoCall /\ calls' = calls
         /\ UNCHANGED <<isLoading, processingProgress, processingStage, successMessage>>
    /\ Rejects =>
         /\ NotReady
         /\ ButtonEnabled
         /\ errorMessage' = (IF apiKey = "" THEN MsgNoKey ELSE MsgNoFile)
         /\ UNCHANGED <<ui, isLoading, processingProgress, processingStage,
                        successMessage, run, obs>>
    /\ storedKey' # storedKey => (apiKey # "" /\ storedKey' = apiKey)

C22_RejectedStart == [][RejectedStartStep]_vars

C22_Witness ==
    /\ errorMessage = MsgNoFile
    /\ audioFile = NoFile
    /\ successMessage = MsgSuccess("transcript")
    /\ processingProgress = ProgressComplete
    /\ processingStage = StageComplete
    /\ ~isLoading
    /\ inFlight = NoCall
-----------------------------------------------------------------------------
(* C23: every run that has started ends: isLoading goes back to false with  *)
(* a success message or an error message shown, provided every call is      *)
(* answered and the service comes to report a status other than queued or   *)
(* processing.                                                              *)

RunEnded ==
    /\ pc = "idle"
    /\ ~isLoading
    /\ inFlight = NoCall
    /\ successMessage # <<>> \/ errorMessage # <<>>

C23_Termination == isLoading ~> RunEnded

C23_Witness ==
    /\ RunEnded
    /\ calls.status = MaxBusyPolls + 1
    /\ lastReply.kind = "caption"
    /\ delivered # <<>>
-----------------------------------------------------------------------------
(* C24: isLoading is true exactly while a run is in progress: from the step *)
(* that sends the upload call, across every call and wait, until the step   *)
(* that ends the run, whichever way; the Process button starts a run only   *)
(* while isLoading is false, so at most one run is in progress.             *)

LoadingStep ==
    /\ Issued("upload") => (~isLoading /\ isLoading' /\ pc = "idle")
    /\ (pc # "idle" /\ pc' # "idle") => (isLoading /\ isLoading')
    /\ (pc # "idle" /\ pc' = "idle") => (isLoading /\ ~isLoading')
    /\ isLoading' # isLoading => (pc = "idle") # (pc' = "idle")
    /\ (isLoading /\ isLoading') => ~Issued("upload")

LoadingWhileRunning ==
    /\ isLoading <=> pc # "idle"
    /\ inFlight # NoCall => isLoading
    /\ ButtonEnabled <=> pc = "idle"

C24_Loading == []LoadingWhileRunning /\ [][LoadingStep]_vars

C24_Witness ==
    /\ ~isLoading
    /\ pc = "idle"
    /\ delivered # <<>>
    /\ calls.status = MaxDeepPolls
    /\ calls.caption = 1
-----------------------------------------------------------------------------
(* C25: a run whose calls all return success and whose job completes        *)
(* delivers exactly one file, reaches progress 100 and ends with a success  *)
(* message and no error message, whatever the user does meanwhile (clears   *)
(* or replaces the file, edits the key, changes the output format).  The    *)
(* code reads the file's name when it delivers and keeps an error message   *)
(* set during the run.                                                      *)

C25_SuccessDespiteUi ==
    [][OutputReady =>
         /\ pc' = "idle"
         /\ Len(delivered') = 1
         /\ processingProgress' = ProgressComplete
         /\ successMessage' # <<>>
         /\ errorMessage' = <<>>]_vars
-----------------------------------------------------------------------------
(* C26: errorMessage and successMessage are never both non-empty, after any *)
(* sequence of runs, start attempts turned down and file selections.  The   *)
(* code clears successMessage only when a run starts.                       *)

C26_OneMessage == errorMessage = <<>> \/ successMessage = <<>>
====
